---- MODULE Spec2Model ----
(***************************************************************************)
(* OKR manager (Dpbm/mentto-project).                                      *)
(*                                                                         *)
(* Browser tabs of one browser share one Supabase session.  Each tab shows *)
(* one page: Home (listing), NewOKR (creation form) or OKRDetail (view,    *)
(* edit, delete).  The pages talk to the `okrs` table, whose row-level     *)
(* security policies scope every statement to the rows of auth.uid(), and  *)
(* NewOKR invokes the `send-okr-notification` edge function.               *)
(*                                                                         *)
(* An async handler is cut at its awaits: the action that starts it runs   *)
(* up to the first await, and one action per await runs the awaited call   *)
(* together with the continuation up to the next await.  An awaited call   *)
(* answers ("ok"), answers with an error ("error") or rejects ("throw").   *)
(*                                                                         *)
(* Spec drives one tab through every page, input and outcome; SpecTabs     *)
(* drives two tabs at once with inputs that validate and calls that        *)
(* answer; SpecStore sends requests to the table without a form;           *)
(* SpecImport drops spreadsheets on NewOKR's dropzone; SpecRace has two    *)
(* tabs edit and save the same rows.                                       *)
(***************************************************************************)
EXTENDS Integers, Sequences, FiniteSets, TLC

\* ------------------------------------------------------------------ bounds
\* number of rows the table ever receives (ids are never reused)
MaxRows == 1

\* ------------------------------------------------------------- value sets
Tabs == {"t1", "t2"}
Users == {"alice", "bob"}
NoUser == "none"
Statuses == {"active", "completed", "archived"}
Outcomes == {"ok", "error", "throw"}

Email(u) == IF u = "alice" THEN "alice@example.com" ELSE "bob@example.com"

\* new Date().getFullYear() of the form's defaultValues
ThisYear == 2025

KR(d, t) == [description |-> d, target |-> t, current |-> "0"]

\* defaultValues of useForm: NewOKR has no status/progress field; a draft
\* carries them as the values a caller may supply besides the form's fields
DefaultValues ==
    [title |-> "", description |-> "", objective |-> "", quarter |-> "",
     year |-> ThisYear, status |-> "active", progress |-> 0,
     keyResults |-> << KR("", "") >>]

BaseDraft ==
    [title |-> "Grow revenue", description |-> "", objective |-> "Revenue",
     quarter |-> "Q1", year |-> ThisYear, status |-> "active", progress |-> 0,
     keyResults |-> << KR("Increase MRR", "10000") >>]

\* what NewOKR's form can hold when it is submitted: typed by the user, or
\* pre-filled by parseExcelFile, whose setValue('quarter', String(dataRow[3]))
\* takes any cell text
NewInputs ==
    { BaseDraft,
      [BaseDraft EXCEPT !.title = "Cut churn", !.status = "completed",
                        !.progress = 50],
      [BaseDraft EXCEPT !.title = "Cut churn", !.quarter = "Q5"],
      [BaseDraft EXCEPT !.title = ""],
      [BaseDraft EXCEPT !.objective = ""],
      [BaseDraft EXCEPT !.quarter = ""],
      [BaseDraft EXCEPT !.year = 2019],
      [BaseDraft EXCEPT !.year = 2031],
      [BaseDraft EXCEPT !.keyResults = << >>],
      [BaseDraft EXCEPT !.keyResults = << KR("", "10000") >>],
      [BaseDraft EXCEPT !.keyResults = << KR("Increase MRR", "") >>] }

\* what OKRDetail's form can hold when it is saved
EditInputs ==
    { [BaseDraft EXCEPT !.status = "completed"],
      [BaseDraft EXCEPT !.progress = 100],
      [BaseDraft EXCEPT !.title = "Cut churn", !.status = "archived",
                        !.progress = 50],
      [BaseDraft EXCEPT !.progress = 101],
      [BaseDraft EXCEPT !.status = "paused"],
      [BaseDraft EXCEPT !.keyResults = << >>] }

\* the inputs of the two-tab specification
TabsNewInputs == { BaseDraft }
TabsEditInputs ==
    { [BaseDraft EXCEPT !.status = "completed"],
      [BaseDraft EXCEPT !.title = "Cut churn", !.status = "archived",
                        !.progress = 50] }

NoToast == [title |-> "", description |-> ""]
Toast(t, d) == [title |-> t, description |-> d]

\* ------------------------------------------------------------------ state
VARIABLES
    session,      \* supabase.auth: the signed-in user of the browser, or NoUser
    okrs,         \* table public.okrs: a set of rows
    nextId,       \* gen_random_uuid(): the next fresh id
    invocations,  \* requests received by the send-okr-notification function
    page,         \* per tab: the mounted page
    pc,           \* per tab: the await its running handler is suspended at
    user,         \* per tab: the identity the pending request carries
    id,           \* per tab: OKRDetail's route parameter (0 when unmounted)
    form,         \* per tab: the values of the page's form
    errors,       \* per tab: the fields the last handleSubmit found offending
    okr,          \* per tab: OKRDetail's `okr` state, << >> for null
    okrsList,     \* per tab: Home's `okrs` state
    isLoading,    \* per tab: the page's isLoading/loading state
    isEditing,    \* per tab: OKRDetail's isEditing state
    isSaving,     \* per tab: OKRDetail's isSaving state
    toast,        \* per tab: the toast on display
    uploadedFile, \* per tab: NewOKR's uploadedFile state, << >> for null
    reader        \* per tab: readyState of parseExcelFile's FileReader

vars == << session, okrs, nextId, invocations, page, pc, user, id,
           form, errors, okr, okrsList, isLoading, isEditing, isSaving, toast,
           uploadedFile, reader >>

store == << okrs, nextId >>
notifier == << invocations >>
dropzone == << uploadedFile, reader >>

\* ------------------------------------------------------------- validation
\* keyResultSchema: the offending fields of one key result
keyResultSchema(k) ==
    (IF k.description = "" THEN {"description"} ELSE {})
    \cup (IF k.target = "" THEN {"target"} ELSE {})

\* the NaN that Number(...) yields for a text that is no numeral, kept apart
\* from every year a form or a cell holds
NaN == 0 - 1

\* a number type that lets NaN through
zNumberAny(v) == TRUE

\* z.number(): zod does not take NaN for a number
zNumber(v) == v # NaN

\* z.number().min(2020).max(2030); every comparison with NaN is false
yearSchema(v) ==
    /\ zNumber(v)
    /\ ~(v # NaN /\ v < 2020)
    /\ ~(v # NaN /\ v > 2030)

\* okrSchema without .min(1) on the keyResults array
okrSchemaNoMin(d) ==
    (IF d.title = "" THEN {"title"} ELSE {})
    \cup (IF d.objective = "" THEN {"objective"} ELSE {})
    \cup (IF d.quarter = "" THEN {"quarter"} ELSE {})
    \cup (IF ~yearSchema(d.year) THEN {"year"} ELSE {})
    \cup (IF \E i \in 1..Len(d.keyResults) :
                 keyResultSchema(d.keyResults[i]) # {}
          THEN {"keyResults"} ELSE {})

\* okrSchema of NewOKR: the offending fields of a draft (status and progress
\* are not keys of the schema and are stripped)
okrSchemaNew(d) ==
    (IF d.title = "" THEN {"title"} ELSE {})
    \cup (IF d.objective = "" THEN {"objective"} ELSE {})
    \cup (IF d.quarter = "" THEN {"quarter"} ELSE {})
    \cup (IF ~yearSchema(d.year) THEN {"year"} ELSE {})
    \cup (IF Len(d.keyResults) < 1
             \/ \E i \in 1..Len(d.keyResults) :
                    keyResultSchema(d.keyResults[i]) # {}
          THEN {"keyResults"} ELSE {})

\* okrSchema of OKRDetail: the same rules plus status and progress
okrSchemaDetail(d) ==
    okrSchemaNew(d)
    \cup (IF d.status \notin Statuses THEN {"status"} ELSE {})
    \cup (IF d.progress < 0 \/ d.progress > 100 THEN {"progress"} ELSE {})

\* ------------------------------------------------------------------ table
\* CREATE TABLE public.okrs: the CHECK constraints of a row
TableCheck(r) ==
    /\ r.status \in Statuses
    /\ r.progress >= 0 /\ r.progress <= 100

\* a table without row-level security
VisibleAll(uid) == okrs

\* the USING (auth.uid() = user_id) policies: the rows a statement run as
\* uid can see, update or delete
Visible(uid) == { r \in okrs : r.user_id = uid }

\* the WITH CHECK (auth.uid() = user_id) policy and the constraints;
\* auth.uid() is NULL without a session and equals nothing
InsertAccepted(r, uid) == uid # NoUser /\ r.user_id = uid /\ TableCheck(r)

\* the rows `.eq('id', i)` selects for a statement run as uid
Target(i, uid) == { r \in Visible(uid) : r.id = i }

\* an insert that passes the draft's status and progress on
InsertRowAsGiven(data, u, i) ==
    [id |-> i, user_id |-> u,
     title |-> data.title, description |-> data.description,
     objective |-> data.objective, quarter |-> data.quarter,
     year |-> data.year, key_results |-> data.keyResults,
     status |-> data.status, progress |-> data.progress]

\* the object literal NewOKR's onSubmit inserts
InsertRow(data, u, i) ==
    [id |-> i, user_id |-> u,
     title |-> data.title, description |-> data.description,
     objective |-> data.objective, quarter |-> data.quarter,
     year |-> data.year, key_results |-> data.keyResults,
     status |-> "active", progress |-> 0]

\* an update that sets progress to 100 whenever the status is "completed"
UpdateRowCoupled(r, data) ==
    [r EXCEPT !.title = data.title, !.description = data.description,
              !.objective = data.objective, !.quarter = data.quarter,
              !.year = data.year, !.status = data.status,
              !.progress = IF data.status = "completed" THEN 100
                           ELSE data.progress,
              !.key_results = data.keyResults]

\* the object literal OKRDetail's onSubmit passes to update(), applied to r
UpdateRow(r, data) ==
    [r EXCEPT !.title = data.title, !.description = data.description,
              !.objective = data.objective, !.quarter = data.quarter,
              !.year = data.year, !.status = data.status,
              !.progress = data.progress, !.key_results = data.keyResults]

\* a notification that names the wrong action
NotificationBodyUpdated(u, data) ==
    [userEmail |-> Email(u), okrTitle |-> data.title, action |-> "updated"]

\* the body NewOKR's onSubmit sends to send-okr-notification
NotificationBody(u, data) ==
    [userEmail |-> Email(u), okrTitle |-> data.title, action |-> "created"]

\* form.reset(...) of fetchOKR: the form values for a fetched row
FormOf(data) ==
    [title |-> data.title, description |-> data.description,
     objective |-> data.objective, quarter |-> data.quarter,
     year |-> data.year, status |-> data.status, progress |-> data.progress,
     keyResults |-> IF Len(data.key_results) > 0 THEN data.key_results
                    ELSE << KR("", "") >>]

\* .order('created_at', { ascending: false }): ids are handed out in
\* creation order, so the listing is by descending id
RECURSIVE Listing(_)
Listing(rows) ==
    IF rows = {} THEN << >>
    ELSE LET newest == CHOOSE r \in rows : \A q \in rows : q.id <= r.id
         IN  << newest >> \o Listing(rows \ {newest})

\* ----------------------------------------------------------------- toasts
ToastCreated == Toast("Success", "OKR created successfully!")
ToastUpdated == Toast("Success", "OKR updated successfully!")
ToastDeleted == Toast("Success", "OKR deleted successfully!")
ToastUnexpected == Toast("Error", "An unexpected error occurred")
ToastStoreError == Toast("Error", "error.message")
ToastFetchOKR == Toast("Error", "Failed to fetch OKR")
ToastFetchOKRs == Toast("Error", "Failed to fetch OKRs")
ToastSignOut == Toast("Error", "Failed to sign out")

\* ------------------------------------------------------------------- Init
\* the application has started: nobody is signed in, the table is empty and
\* every tab has mounted Home, whose effect has issued fetchOKRs
Init ==
    /\ session = NoUser
    /\ okrs = {}
    /\ nextId = 1
    /\ invocations = << >>
    /\ page = [c \in Tabs |-> "home"]
    /\ pc = [c \in Tabs |-> "fetchOKRs"]
    /\ user = [c \in Tabs |-> NoUser]
    /\ id = [c \in Tabs |-> 0]
    /\ form = [c \in Tabs |-> DefaultValues]
    /\ errors = [c \in Tabs |-> {}]
    /\ okr = [c \in Tabs |-> << >>]
    /\ okrsList = [c \in Tabs |-> << >>]
    /\ isLoading = [c \in Tabs |-> TRUE]
    /\ isEditing = [c \in Tabs |-> FALSE]
    /\ isSaving = [c \in Tabs |-> FALSE]
    /\ toast = [c \in Tabs |-> NoToast]
    /\ uploadedFile = [c \in Tabs |-> << >>]
    /\ reader = [c \in Tabs |-> "EMPTY"]

\* ------------------------------------------------------------- navigation
\* the state of a tab whose page has just been mounted (React state of the
\* page left behind is destroyed); p's mount effect suspends at await a
Mount(c, p, a, i) ==
    /\ page' = [page EXCEPT ![c] = p]
    /\ pc' = [pc EXCEPT ![c] = a]
    /\ user' = [user EXCEPT ![c] = IF a = "idle" THEN NoUser ELSE session]
    /\ id' = [id EXCEPT ![c] = i]
    /\ form' = [form EXCEPT ![c] = DefaultValues]
    /\ errors' = [errors EXCEPT ![c] = {}]
    /\ okr' = [okr EXCEPT ![c] = << >>]
    /\ okrsList' = [okrsList EXCEPT ![c] = << >>]
    /\ isLoading' = [isLoading EXCEPT ![c] = (p # "new")]
    /\ isEditing' = [isEditing EXCEPT ![c] = FALSE]
    /\ isSaving' = [isSaving EXCEPT ![c] = FALSE]
    /\ uploadedFile' = [uploadedFile EXCEPT ![c] = << >>]
    /\ reader' = [reader EXCEPT ![c] = "EMPTY"]

\* navigate('/'): Home mounts and its effect calls fetchOKRs
MountHome(c) == Mount(c, "home", "fetchOKRs", 0)

\* the identity provider signs a user in
SignIn(u) ==
    /\ session = NoUser
    /\ session' = u
    /\ UNCHANGED << store, notifier, page, pc, user, id, form, errors, okr,
                    okrsList, isLoading, isEditing, isSaving, toast,
                    dropzone >>

\* Home.handleSignOut
handleSignOut(c, outcome) ==
    /\ page[c] = "home" /\ pc[c] = "idle"
    /\ session # NoUser
    /\ IF outcome = "ok"
       THEN session' = NoUser /\ toast' = toast
       ELSE session' = session /\ toast' = [toast EXCEPT ![c] = ToastSignOut]
    /\ UNCHANGED << store, notifier, page, pc, user, id, form, errors, okr,
                    okrsList, isLoading, isEditing, isSaving, dropzone >>

\* the Back/Cancel buttons of NewOKR and OKRDetail: navigate('/')
BackToDashboard(c) ==
    /\ page[c] \in {"new", "detail"} /\ pc[c] = "idle"
    /\ MountHome(c)
    /\ UNCHANGED << session, store, notifier, toast >>

\* Home's <Link to="/okrs/new">
OpenNew(c) ==
    /\ page[c] = "home" /\ pc[c] = "idle"
    /\ Mount(c, "new", "idle", 0)
    /\ UNCHANGED << session, store, notifier, toast >>

\* Home's <Link to={`/okrs/${okr.id}`}>, or the address typed by hand:
\* OKRDetail mounts and its effect calls fetchOKR
OpenDetail(c, i) ==
    /\ page[c] = "home" /\ pc[c] = "idle"
    /\ Mount(c, "detail", "fetchOKR", i)
    /\ UNCHANGED << session, store, notifier, toast >>

\* ------------------------------------------------------------------- Home
\* fetchOKRs after its await
fetchOKRs(c, outcome) ==
    /\ pc[c] = "fetchOKRs"
    /\ pc' = [pc EXCEPT ![c] = "idle"]
    /\ user' = [user EXCEPT ![c] = NoUser]
    /\ isLoading' = [isLoading EXCEPT ![c] = FALSE]
    /\ CASE outcome = "ok" ->
              /\ okrsList' = [okrsList EXCEPT ![c] = Listing(Visible(user[c]))]
              /\ toast' = toast
         [] outcome = "error" ->
              /\ okrsList' = okrsList
              /\ toast' = [toast EXCEPT ![c] = ToastFetchOKRs]
         [] OTHER ->
              /\ okrsList' = okrsList
              /\ toast' = [toast EXCEPT ![c] = ToastUnexpected]
    /\ UNCHANGED << session, store, notifier, page, id, form, errors, okr,
                    isEditing, isSaving, dropzone >>

\* ----------------------------------------------------------------- NewOKR
\* the fields' onChange handlers (and the setValue calls that pre-fill the
\* form): the form of NewOKR comes to hold draft d
EditNewForm(c, d) ==
    /\ page[c] = "new" /\ pc[c] = "idle"
    /\ form[c] # d
    /\ form' = [form EXCEPT ![c] = d]
    /\ UNCHANGED << session, store, notifier, page, pc, user, id, errors, okr,
                    okrsList, isLoading, isEditing, isSaving, toast,
                    dropzone >>

\* form.handleSubmit(onSubmit) of NewOKR: the resolver validates the form
\* and onSubmit runs, up to `await supabase.auth.getUser()`, only when no
\* field offends (the submit button is disabled while isLoading; ids are
\* capped at MaxRows)
CreateSubmit(c) ==
    /\ page[c] = "new" /\ pc[c] = "idle"
    /\ ~isLoading[c]
    /\ nextId <= MaxRows
    /\ errors' = [errors EXCEPT ![c] = okrSchemaNew(form[c])]
    /\ IF okrSchemaNew(form[c]) = {}
       THEN /\ isLoading' = [isLoading EXCEPT ![c] = TRUE]
            /\ pc' = [pc EXCEPT ![c] = "getUser"]
       ELSE UNCHANGED << isLoading, pc >>
    /\ UNCHANGED << session, store, notifier, page, user, id, form, okr,
                    okrsList, isEditing, isSaving, toast, dropzone >>

\* catch and finally of NewOKR's onSubmit
CreateFailed(c, t) ==
    /\ toast' = [toast EXCEPT ![c] = t]
    /\ isLoading' = [isLoading EXCEPT ![c] = FALSE]
    /\ pc' = [pc EXCEPT ![c] = "idle"]
    /\ user' = [user EXCEPT ![c] = NoUser]

\* an onSubmit that goes on to the insert without looking at user.data.user
CreateGetUserUnchecked(c, outcome) ==
    /\ pc[c] = "getUser"
    /\ IF outcome # "throw"
       THEN /\ user' = [user EXCEPT ![c] = session]
            /\ pc' = [pc EXCEPT ![c] = "insert"]
            /\ UNCHANGED << toast, isLoading >>
       ELSE CreateFailed(c, ToastUnexpected)
    /\ UNCHANGED << session, store, notifier, page, id, form, errors, okr,
                    okrsList, isEditing, isSaving, dropzone >>

\* onSubmit from the answer of getUser to `await ...insert(...)`
CreateGetUser(c, outcome) ==
    /\ pc[c] = "getUser"
    /\ IF outcome = "ok" /\ session # NoUser
       THEN /\ user' = [user EXCEPT ![c] = session]
            /\ pc' = [pc EXCEPT ![c] = "insert"]
            /\ UNCHANGED << toast, isLoading >>
       ELSE CreateFailed(c, ToastUnexpected)
    /\ UNCHANGED << session, store, notifier, page, id, form, errors, okr,
                    okrsList, isEditing, isSaving, dropzone >>

\* an onSubmit that does not look at the `error` of the insert's answer
CreateInsertUnchecked(c, outcome) ==
    /\ pc[c] = "insert"
    /\ LET row == InsertRow(form[c], user[c], nextId)
       IN  CASE outcome = "ok" /\ InsertAccepted(row, user[c]) ->
                  /\ nextId <= MaxRows
                  /\ okrs' = okrs \cup {row}
                  /\ nextId' = nextId + 1
                  /\ invocations' =
                         Append(invocations, NotificationBody(user[c], form[c]))
                  /\ pc' = [pc EXCEPT ![c] = "notify"]
                  /\ UNCHANGED << toast, isLoading, user >>
             [] outcome = "throw" ->
                  /\ CreateFailed(c, ToastUnexpected)
                  /\ UNCHANGED << store, invocations >>
             [] OTHER ->
                  /\ invocations' =
                         Append(invocations, NotificationBody(user[c], form[c]))
                  /\ pc' = [pc EXCEPT ![c] = "notify"]
                  /\ UNCHANGED << store, toast, isLoading, user >>
    /\ UNCHANGED << session, page, id, form, errors, okr, okrsList,
                    isEditing, isSaving, dropzone >>

\* the table runs the insert, and onSubmit continues from its answer to
\* `await supabase.functions.invoke(...)`
CreateInsert(c, outcome) ==
    /\ pc[c] = "insert"
    /\ LET row == InsertRow(form[c], user[c], nextId)
       IN  CASE outcome = "ok" /\ InsertAccepted(row, user[c]) ->
                  /\ nextId <= MaxRows
                  /\ okrs' = okrs \cup {row}
                  /\ nextId' = nextId + 1
                  /\ invocations' =
                         Append(invocations, NotificationBody(user[c], form[c]))
                  /\ pc' = [pc EXCEPT ![c] = "notify"]
                  /\ UNCHANGED << toast, isLoading, user >>
             [] outcome = "throw" ->
                  /\ CreateFailed(c, ToastUnexpected)
                  /\ UNCHANGED << store, invocations >>
             [] OTHER ->
                  /\ CreateFailed(c, ToastStoreError)
                  /\ UNCHANGED << store, invocations >>
    /\ UNCHANGED << session, page, id, form, errors, okr, okrsList,
                    isEditing, isSaving, dropzone >>

\* the edge function answers the request (200 after the email was handed to
\* Resend: "ok"; 500 when that threw: "error", which invoke returns and
\* onSubmit does not read) or the call itself rejects ("throw"), and onSubmit
\* continues from the await to its end
CreateNotified(c, outcome) ==
    /\ pc[c] = "notify"
    /\ IF outcome = "throw"
       THEN /\ CreateFailed(c, ToastUnexpected)
            /\ UNCHANGED << page, id, form, errors, okr, okrsList, isEditing,
                            isSaving, dropzone >>
       ELSE /\ toast' = [toast EXCEPT ![c] = ToastCreated]
            /\ MountHome(c)
    /\ UNCHANGED << session, store, invocations >>

\* -------------------------------------------------------------- OKRDetail
\* the error paths of fetchOKR: toast, navigate('/')
FetchFailed(c, t) ==
    /\ toast' = [toast EXCEPT ![c] = t]
    /\ MountHome(c)

\* fetchOKR after its await
fetchOKR(c, outcome) ==
    /\ pc[c] = "fetchOKR"
    /\ CASE outcome = "ok" /\ Cardinality(Target(id[c], user[c])) = 1 ->
              LET data == CHOOSE r \in Target(id[c], user[c]) : TRUE
              IN  /\ okr' = [okr EXCEPT ![c] = << data >>]
                  /\ form' = [form EXCEPT ![c] = FormOf(data)]
                  /\ errors' = [errors EXCEPT ![c] = {}]
                  /\ isLoading' = [isLoading EXCEPT ![c] = FALSE]
                  /\ pc' = [pc EXCEPT ![c] = "idle"]
                  /\ user' = [user EXCEPT ![c] = NoUser]
                  /\ UNCHANGED << page, id, okrsList, isEditing, isSaving,
                                  toast, dropzone >>
         [] outcome = "throw" -> FetchFailed(c, ToastUnexpected)
         [] OTHER -> FetchFailed(c, ToastFetchOKR)
    /\ UNCHANGED << session, store, notifier >>

\* the Edit button: setIsEditing(true)
StartEdit(c) ==
    /\ page[c] = "detail" /\ pc[c] = "idle"
    /\ okr[c] # << >> /\ ~isEditing[c]
    /\ isEditing' = [isEditing EXCEPT ![c] = TRUE]
    /\ UNCHANGED << session, store, notifier, page, pc, user, id, form,
                    errors, okr, okrsList, isLoading, isSaving, toast,
                    dropzone >>

\* the fields' onChange handlers of the edit form
EditDetailForm(c, d) ==
    /\ page[c] = "detail" /\ pc[c] = "idle"
    /\ isEditing[c]
    /\ form[c] # d
    /\ form' = [form EXCEPT ![c] = d]
    /\ UNCHANGED << session, store, notifier, page, pc, user, id, errors, okr,
                    okrsList, isLoading, isEditing, isSaving, toast,
                    dropzone >>

\* the Cancel button of the edit form
CancelEdit(c) ==
    /\ page[c] = "detail" /\ pc[c] = "idle"
    /\ isEditing[c]
    /\ isEditing' = [isEditing EXCEPT ![c] = FALSE]
    /\ form' = [form EXCEPT ![c] = FormOf(okr[c][1])]
    /\ errors' = [errors EXCEPT ![c] = {}]
    /\ pc' = [pc EXCEPT ![c] = "fetchOKR"]
    /\ user' = [user EXCEPT ![c] = session]
    /\ UNCHANGED << session, store, notifier, page, id, okr, okrsList,
                    isLoading, isSaving, toast, dropzone >>

\* form.handleSubmit(onSubmit) of OKRDetail, up to `await ...update(...)`
UpdateSubmit(c) ==
    /\ page[c] = "detail" /\ pc[c] = "idle"
    /\ isEditing[c] /\ ~isSaving[c]
    /\ errors' = [errors EXCEPT ![c] = okrSchemaDetail(form[c])]
    /\ IF okrSchemaDetail(form[c]) = {}
       THEN /\ isSaving' = [isSaving EXCEPT ![c] = TRUE]
            /\ pc' = [pc EXCEPT ![c] = "update"]
            /\ user' = [user EXCEPT ![c] = session]
       ELSE UNCHANGED << isSaving, pc, user >>
    /\ UNCHANGED << session, store, notifier, page, id, form, okr, okrsList,
                    isLoading, isEditing, toast, dropzone >>

\* an onSubmit that leaves edit mode in its finally block, whatever the
\* table answered, and re-fetches only after success
UpdateApplyLeavingEdit(c, outcome) ==
    /\ pc[c] = "update"
    /\ isSaving' = [isSaving EXCEPT ![c] = FALSE]
    /\ isEditing' = [isEditing EXCEPT ![c] = FALSE]
    /\ LET hit == Target(id[c], user[c])
           new == { UpdateRow(r, form[c]) : r \in hit }
       IN  IF outcome = "ok" /\ \A r \in new : TableCheck(r)
           THEN /\ okrs' = (okrs \ hit) \cup new
                /\ toast' = [toast EXCEPT ![c] = ToastUpdated]
                /\ pc' = [pc EXCEPT ![c] = "fetchOKR"]
                /\ user' = [user EXCEPT ![c] = session]
           ELSE /\ toast' = [toast EXCEPT ![c] = ToastStoreError]
                /\ pc' = [pc EXCEPT ![c] = "idle"]
                /\ user' = [user EXCEPT ![c] = NoUser]
                /\ UNCHANGED okrs
    /\ UNCHANGED << session, nextId, notifier, page, id, form, errors, okr,
                    okrsList, isLoading, dropzone >>

\* an update that is refused when the row is no longer the one the page
\* loaded (an optimistic-concurrency check)
UpdateApplyIfFresh(c, outcome) ==
    /\ pc[c] = "update"
    /\ isSaving' = [isSaving EXCEPT ![c] = FALSE]
    /\ LET hit == Target(id[c], user[c])
           new == { UpdateRow(r, form[c]) : r \in hit }
       IN  IF /\ outcome = "ok"
              /\ \A r \in new : TableCheck(r)
              /\ \A r \in hit : << r >> = okr[c]
           THEN /\ okrs' = (okrs \ hit) \cup new
                /\ toast' = [toast EXCEPT ![c] = ToastUpdated]
                /\ isEditing' = [isEditing EXCEPT ![c] = FALSE]
                /\ pc' = [pc EXCEPT ![c] = "fetchOKR"]
                /\ user' = [user EXCEPT ![c] = session]
           ELSE /\ toast' = [toast EXCEPT ![c] = ToastStoreError]
                /\ pc' = [pc EXCEPT ![c] = "idle"]
                /\ user' = [user EXCEPT ![c] = NoUser]
                /\ UNCHANGED << okrs, isEditing >>
    /\ UNCHANGED << session, nextId, notifier, page, id, form, errors, okr,
                    okrsList, isLoading, dropzone >>

\* the table runs the update, and onSubmit continues from its answer to
\* its end; on success it calls fetchOKR, which suspends at its await
UpdateApply(c, outcome) ==
    /\ pc[c] = "update"
    /\ isSaving' = [isSaving EXCEPT ![c] = FALSE]
    /\ LET hit == Target(id[c], user[c])
           new == { UpdateRow(r, form[c]) : r \in hit }
       IN  CASE outcome = "ok" /\ \A r \in new : TableCheck(r) ->
                  /\ okrs' = (okrs \ hit) \cup new
                  /\ toast' = [toast EXCEPT ![c] = ToastUpdated]
                  /\ isEditing' = [isEditing EXCEPT ![c] = FALSE]
                  /\ pc' = [pc EXCEPT ![c] = "fetchOKR"]
                  /\ user' = [user EXCEPT ![c] = session]
             [] outcome = "throw" ->
                  /\ toast' = [toast EXCEPT ![c] = ToastUnexpected]
                  /\ pc' = [pc EXCEPT ![c] = "idle"]
                  /\ user' = [user EXCEPT ![c] = NoUser]
                  /\ UNCHANGED << okrs, isEditing >>
             [] OTHER ->
                  /\ toast' = [toast EXCEPT ![c] = ToastStoreError]
                  /\ pc' = [pc EXCEPT ![c] = "idle"]
                  /\ user' = [user EXCEPT ![c] = NoUser]
                  /\ UNCHANGED << okrs, isEditing >>
    /\ UNCHANGED << session, nextId, notifier, page, id, form, errors, okr,
                    okrsList, isLoading, dropzone >>

\* handleDelete up to `await ...delete()...`
handleDelete(c) ==
    /\ page[c] = "detail" /\ pc[c] = "idle"
    /\ okr[c] # << >> /\ ~isEditing[c]
    /\ pc' = [pc EXCEPT ![c] = "delete"]
    /\ user' = [user EXCEPT ![c] = session]
    /\ UNCHANGED << session, store, notifier, page, id, form, errors, okr,
                    okrsList, isLoading, isEditing, isSaving, toast,
                    dropzone >>

\* a handleDelete that invokes send-okr-notification after a delete the
\* table answered without an error
DeleteApplyNotifying(c, outcome) ==
    /\ pc[c] = "delete"
    /\ IF outcome = "ok"
       THEN /\ okrs' = okrs \ Target(id[c], user[c])
            /\ invocations' =
                   Append(invocations,
                          [userEmail |-> Email(user[c]),
                           okrTitle |-> form[c].title, action |-> "deleted"])
            /\ toast' = [toast EXCEPT ![c] = ToastDeleted]
            /\ MountHome(c)
       ELSE /\ toast' = [toast EXCEPT ![c] = ToastStoreError]
            /\ pc' = [pc EXCEPT ![c] = "idle"]
            /\ user' = [user EXCEPT ![c] = NoUser]
            /\ UNCHANGED << okrs, invocations, page, id, form, errors, okr,
                            okrsList, isLoading, isEditing, isSaving,
                            dropzone >>
    /\ UNCHANGED << session, nextId >>

\* the table runs the delete, and handleDelete continues to its end
DeleteApply(c, outcome) ==
    /\ pc[c] = "delete"
    /\ CASE outcome = "ok" ->
              /\ okrs' = okrs \ Target(id[c], user[c])
              /\ toast' = [toast EXCEPT ![c] = ToastDeleted]
              /\ MountHome(c)
         [] outcome = "throw" ->
              /\ toast' = [toast EXCEPT ![c] = ToastUnexpected]
              /\ pc' = [pc EXCEPT ![c] = "idle"]
              /\ user' = [user EXCEPT ![c] = NoUser]
              /\ UNCHANGED << okrs, page, id, form, errors, okr, okrsList,
                              isLoading, isEditing, isSaving, dropzone >>
         [] OTHER ->
              /\ toast' = [toast EXCEPT ![c] = ToastStoreError]
              /\ pc' = [pc EXCEPT ![c] = "idle"]
              /\ user' = [user EXCEPT ![c] = NoUser]
              /\ UNCHANGED << okrs, page, id, form, errors, okr, okrsList,
                              isLoading, isEditing, isSaving, dropzone >>
    /\ UNCHANGED << session, nextId, notifier >>

\* ---------------------------------------------------------- specification
\* what tab c can do
TabNext(c) ==
    \/ \E o \in {"ok", "error"} : handleSignOut(c, o)
    \/ BackToDashboard(c)
    \/ OpenNew(c)
    \/ \E i \in 1..MaxRows : OpenDetail(c, i)
    \/ \E o \in Outcomes : fetchOKRs(c, o)
    \/ \E d \in NewInputs : EditNewForm(c, d)
    \/ CreateSubmit(c)
    \/ \E o \in Outcomes : CreateGetUser(c, o)
    \/ \E o \in Outcomes : CreateInsert(c, o)
    \/ \E o \in Outcomes : CreateNotified(c, o)
    \/ \E o \in Outcomes : fetchOKR(c, o)
    \/ StartEdit(c)
    \/ \E d \in EditInputs : EditDetailForm(c, d)
    \/ CancelEdit(c)
    \/ UpdateSubmit(c)
    \/ \E o \in Outcomes : UpdateApply(c, o)
    \/ handleDelete(c)
    \/ \E o \in Outcomes : DeleteApply(c, o)

\* one tab in use: every page, every input, every outcome of every call
Next ==
    \/ \E u \in Users : SignIn(u)
    \/ TabNext("t1")

Spec == Init /\ [][Next]_vars

\* what tab c can do when the user types inputs that validate and every
\* call is answered without an error
TabNextOk(c) ==
    \/ handleSignOut(c, "ok")
    \/ BackToDashboard(c)
    \/ OpenNew(c)
    \/ \E i \in 1..MaxRows : OpenDetail(c, i)
    \/ fetchOKRs(c, "ok")
    \/ \E d \in TabsNewInputs : EditNewForm(c, d)
    \/ CreateSubmit(c)
    \/ CreateGetUser(c, "ok")
    \/ CreateInsert(c, "ok")
    \/ CreateNotified(c, "ok")
    \/ fetchOKR(c, "ok")
    \/ StartEdit(c)
    \/ \E d \in TabsEditInputs : EditDetailForm(c, d)
    \/ CancelEdit(c)
    \/ UpdateSubmit(c)
    \/ UpdateApply(c, "ok")
    \/ handleDelete(c)
    \/ DeleteApply(c, "ok")

\* two tabs of the browser in use at once
NextTabs ==
    \/ \E u \in Users : SignIn(u)
    \/ \E c \in Tabs : TabNextOk(c)

SpecTabs == Init /\ [][NextTabs]_vars

\* ---------------------------------------------------- requests to the table
\* the column values a client can put in a request to the table's REST
\* endpoint without going through a form
StoreInputs ==
    { BaseDraft,
      [BaseDraft EXCEPT !.year = 2019],
      [BaseDraft EXCEPT !.year = 2031],
      [BaseDraft EXCEPT !.progress = 0 - 1],
      [BaseDraft EXCEPT !.progress = 101],
      [BaseDraft EXCEPT !.status = "completed", !.progress = 50],
      [BaseDraft EXCEPT !.status = "paused"] }

\* INSERT INTO public.okrs sent with the session's token: the row is stored
\* when the insert policy and the CHECK constraints accept it
DirectInsert(owner, data) ==
    /\ session # NoUser
    /\ nextId <= MaxRows
    /\ LET row == [id |-> nextId, user_id |-> owner,
                   title |-> data.title, description |-> data.description,
                   objective |-> data.objective, quarter |-> data.quarter,
                   year |-> data.year, key_results |-> data.keyResults,
                   status |-> data.status, progress |-> data.progress]
       IN  /\ InsertAccepted(row, session)
           /\ okrs' = okrs \cup {row}
    /\ nextId' = nextId + 1
    /\ UNCHANGED << session, notifier, page, pc, user, id, form, errors, okr,
                    okrsList, isLoading, isEditing, isSaving, toast,
                    dropzone >>

\* UPDATE public.okrs SET year = y, progress = p WHERE id = i sent with the
\* session's token: the rows the update policy shows are rewritten when the
\* CHECK constraints accept the new values
DirectUpdate(i, y, p) ==
    /\ session # NoUser
    /\ LET hit == Target(i, session)
           new == { [r EXCEPT !.year = y, !.progress = p] : r \in hit }
       IN  /\ hit # {}
           /\ \A r \in new : TableCheck(r)
           /\ okrs' = (okrs \ hit) \cup new
    /\ UNCHANGED << session, nextId, notifier, page, pc, user, id, form,
                    errors, okr, okrsList, isLoading, isEditing, isSaving,
                    toast, dropzone >>

\* the table used by signed-in clients directly, next to a Home page
NextStore ==
    \/ \E u \in Users : SignIn(u)
    \/ \E o \in Outcomes : handleSignOut("t1", o)
    \/ \E o \in Outcomes : fetchOKRs("t1", o)
    \/ \E u \in Users, d \in StoreInputs : DirectInsert(u, d)
    \/ \E i \in 1..MaxRows, d, e \in StoreInputs :
          DirectUpdate(i, d.year, e.progress)

SpecStore == Init /\ [][NextStore]_vars

\* ------------------------------------------------------ spreadsheet import
\* a cell of the array-of-arrays sheet_to_json(..., { header: 1 }) returns:
\* a hole (undefined), a text or a number
Undefined == [kind |-> "undefined", str |-> "", num |-> 0]
Text(s) == [kind |-> "string", str |-> s, num |-> 0]
Num(n) == [kind |-> "number", str |-> "", num |-> n]

\* dataRow[i], which is undefined past the end of the array
At(dataRow, i) == IF i < Len(dataRow) THEN dataRow[i + 1] ELSE Undefined

\* a test for a cell that is there, whatever it holds
Defined(v) == v.kind # "undefined"

\* `if (v)`: undefined, "" and 0 are falsy
Truthy(v) ==
    \/ v.kind = "string" /\ v.str # ""
    \/ v.kind = "number" /\ v.num # 0

\* String(v)
String(v) ==
    CASE v.kind = "string" -> v.str
      [] v.kind = "number" -> ToString(v.num)
      [] OTHER -> "undefined"

\* the numerals Number(...) is given in this model
Numerals == 2019..2031

\* Number(v): a text converts when it is a numeral, "" to 0, else to NaN
Number(v) ==
    CASE v.kind = "number" -> v.num
      [] v.kind = "string" /\ v.str = "" -> 0
      [] v.kind = "string" /\ \E n \in Numerals : ToString(n) = v.str ->
            CHOOSE n \in Numerals : ToString(n) = v.str
      [] OTHER -> NaN

\* a pair test that looks at the description cell only
descriptionPresent(dataRow, i) == Truthy(At(dataRow, i))

\* `dataRow[i] && dataRow[i + 1]`
pairPresent(dataRow, i) ==
    Truthy(At(dataRow, i)) /\ Truthy(At(dataRow, i + 1))

\* a key result built with target and description swapped
pushedSwapped(dataRow, i) ==
    KR(String(At(dataRow, i + 1)), String(At(dataRow, i)))

\* the object keyResults.push(...) adds for the pair at column i
pushed(dataRow, i) ==
    KR(String(At(dataRow, i)), String(At(dataRow, i + 1)))

RECURSIVE keyResults(_, _)

\* a loop that breaks at the first pair with a missing half
keyResultsPrefix(dataRow, i) ==
    LET n == Cardinality({ k \in 0..Len(dataRow) :
                              \A j \in 0..k : pairPresent(dataRow, i + 2 * j) })
    IN  [j \in 1..n |-> pushed(dataRow, i + 2 * (j - 1))]

\* the for loop of parseExcelFile from column i on: the pairs it pushes
keyResults(dataRow, i) ==
    IF i >= Len(dataRow) THEN << >>
    ELSE (IF pairPresent(dataRow, i) THEN << pushed(dataRow, i) >>
          ELSE << >>)
         \o keyResults(dataRow, i + 2)

\* setting every one of the five fields from its cell, present or not
setFieldsAlways(f, dataRow) ==
    [f EXCEPT !.title = String(At(dataRow, 0)),
              !.description = String(At(dataRow, 1)),
              !.objective = String(At(dataRow, 2)),
              !.quarter = String(At(dataRow, 3)),
              !.year = Number(At(dataRow, 4))]

\* the five `if (dataRow[k]) form.setValue(...)` statements
setFields(f, dataRow) ==
    [f EXCEPT
       !.title = IF Truthy(At(dataRow, 0)) THEN String(At(dataRow, 0)) ELSE @,
       !.description =
           IF Truthy(At(dataRow, 1)) THEN String(At(dataRow, 1)) ELSE @,
       !.objective =
           IF Truthy(At(dataRow, 2)) THEN String(At(dataRow, 2)) ELSE @,
       !.quarter =
           IF Truthy(At(dataRow, 3)) THEN String(At(dataRow, 3)) ELSE @,
       !.year = IF Truthy(At(dataRow, 4)) THEN Number(At(dataRow, 4)) ELSE @]

\* form.setValue('keyResults', ...) whatever the length of the list
setKeyResultsAlways(f, list) == [f EXCEPT !.keyResults = list]

\* `if (keyResults.length > 0) form.setValue('keyResults', keyResults)`
setKeyResults(f, list) ==
    IF Len(list) > 0 THEN [f EXCEPT !.keyResults = list] ELSE f

\* a try block that announces success for a sheet without a data row, too
tryBlockAnnouncing(f, t, jsonData) ==
    IF Len(jsonData) > 1
    THEN [form |-> setKeyResults(setFields(f, jsonData[2]),
                                 keyResults(jsonData[2], 5)),
          toast |-> Toast("Success", "Excel file parsed successfully!")]
    ELSE [form |-> f,
          toast |-> Toast("Success", "Excel file parsed successfully!")]

\* the try block of reader.onload once XLSX.read has returned: the form
\* values and the toast it leaves, from form f and toast t
tryBlock(f, t, jsonData) ==
    IF Len(jsonData) > 1
    THEN [form |-> setKeyResults(setFields(f, jsonData[2]),
                                 keyResults(jsonData[2], 5)),
          toast |-> Toast("Success", "Excel file parsed successfully!")]
    ELSE [form |-> f, toast |-> t]

\* a catch block that shows nothing
catchBlockSilent(f, t) == [form |-> f, toast |-> t]

\* the catch block of reader.onload
catchBlock(f, t) ==
    [form |-> f,
     toast |-> Toast("Error",
                     "Failed to parse Excel file. Please check the format.")]

\* a dropped file: whether XLSX.read takes its bytes for a workbook, and the
\* rows of its first worksheet
Workbook(jsonData) == [readable |-> TRUE, jsonData |-> jsonData]
Corrupt == [readable |-> FALSE, jsonData |-> << >>]

headerRow ==
    << Text("Title"), Text("Description"), Text("Objective"), Text("Quarter"),
       Text("Year"), Text("KR1"), Text("Target1"), Text("KR2"),
       Text("Target2") >>

\* the data rows of the files a user drops
DataRows ==
    { << Undefined, Undefined, Text("Retention") >>,
      << Text("Cut churn"), Text("Keep customers"), Text("Retention"),
         Text("Q2"), Num(2026), Text("Ship v1"), Num(100),
         Text("Improve latency"), Text("50ms") >>,
      << Text("Cut churn"), Undefined, Undefined, Undefined, Undefined,
         Text("Ship v1"), Text("100"), Text("Improve latency") >>,
      << Undefined, Undefined, Undefined, Text("Q3"), Undefined,
         Text("Ship v1"), Text("100"), Text("Improve latency"), Undefined,
         Text("Hire"), Num(3) >>,
      << Text("Cut churn"), Undefined, Text("Retention"), Text("Q5"),
         Text("2027") >>,
      << Undefined, Undefined, Undefined, Undefined, Text("next year") >>,
      << Num(0), Text(""), Undefined, Undefined, Num(0), Text("Ship v1"),
         Num(0), Undefined, Text("100") >>,
      << Undefined, Text(""), Undefined, Undefined, Undefined,
         Text("Ship v1"), Num(0), Text("Hire"), Num(3) >> }

Files ==
    { Corrupt, Workbook(<< >>), Workbook(<< headerRow >>) }
    \cup { Workbook(<< headerRow, dataRow >>) : dataRow \in DataRows }

\* onDrop: the file is kept and parseExcelFile starts a FileReader on it
\* (one reader at a time is followed)
onDrop(c, file) ==
    /\ page[c] = "new"
    /\ reader[c] # "LOADING"
    /\ uploadedFile' = [uploadedFile EXCEPT ![c] = << file >>]
    /\ reader' = [reader EXCEPT ![c] = "LOADING"]
    /\ UNCHANGED << session, store, notifier, page, pc, user, id, form, errors,
                    okr, okrsList, isLoading, isEditing, isSaving, toast >>

\* reader.onload of parseExcelFile: XLSX.read throws on bytes that are no
\* workbook, before any form.setValue
parseExcelFile(c) ==
    /\ page[c] = "new"
    /\ reader[c] = "LOADING"
    /\ reader' = [reader EXCEPT ![c] = "DONE"]
    /\ LET file == uploadedFile[c][1]
           end == IF file.readable
                  THEN tryBlock(form[c], toast[c], file.jsonData)
                  ELSE catchBlock(form[c], toast[c])
       IN  /\ form' = [form EXCEPT ![c] = end.form]
           /\ toast' = [toast EXCEPT ![c] = end.toast]
    /\ UNCHANGED << session, store, notifier, page, pc, user, id, errors, okr,
                    okrsList, isLoading, isEditing, isSaving, uploadedFile >>

\* the form values a user types next to an import
ImportInputs ==
    { BaseDraft,
      [BaseDraft EXCEPT !.keyResults =
                            << KR("Increase MRR", "10000"),
                               KR("Sign partners", "5") >>] }

\* NewOKR and its dropzone in a browser whose session is gone: every Create
\* that passes validation ends at getUser
NextImport ==
    \/ fetchOKRs("t1", "ok")
    \/ OpenNew("t1")
    \/ BackToDashboard("t1")
    \/ \E d \in ImportInputs : EditNewForm("t1", d)
    \/ \E file \in Files : onDrop("t1", file)
    \/ parseExcelFile("t1")
    \/ CreateSubmit("t1")
    \/ \E o \in Outcomes : CreateGetUser("t1", o)

SpecImport == Init /\ [][NextImport]_vars

\* ------------------------------------------------------- concurrent edits
\* two tabs on OKRDetail, editing and saving rows that clients have put in
\* the table; every call is answered
NextRace ==
    \/ \E u \in Users : SignIn(u)
    \/ \E u \in Users : DirectInsert(u, BaseDraft)
    \/ \E c \in Tabs :
          \/ fetchOKRs(c, "ok")
          \/ \E i \in 1..MaxRows : OpenDetail(c, i)
          \/ fetchOKR(c, "ok")
          \/ StartEdit(c)
          \/ \E d \in TabsEditInputs : EditDetailForm(c, d)
          \/ UpdateSubmit(c)
          \/ UpdateApply(c, "ok")

SpecRace == Init /\ [][NextRace]_vars

\* ----------------------------------------------------------------- claims
CreatePcs == {"getUser", "insert", "notify"}

\* C1: whatever status and progress the draft carries, the step in which the
\* table accepts a Create's insert adds exactly one row, whose status is
\* "active", whose progress is 0, whose owner is the user getUser returned
\* and whose other fields are the draft's.
C1_CreateForcesActiveZero ==
    [][\A c \in Tabs :
          (pc[c] = "insert" /\ pc'[c] = "notify") =>
              /\ user[c] \in Users
              /\ okrSchemaNew(form[c]) = {}
              /\ \E r \in okrs' \ okrs :
                    /\ okrs' = okrs \cup {r}
                    /\ r.status = "active" /\ r.progress = 0
                    /\ r.user_id = user[c]
                    /\ r.title = form[c].title
                    /\ r.key_results = form[c].keyResults]_vars

\* a Create whose draft carried status "completed" and progress 50 has been
\* inserted
C1_Witness ==
    \E c \in Tabs :
        /\ pc[c] = "notify"
        /\ form[c].status = "completed" /\ form[c].progress = 50
        /\ \E r \in okrs : r.title = form[c].title /\ r.user_id = user[c]
                           /\ r.status = "active" /\ r.progress = 0

\* C2: every stored OKR has at least one key result, and no Create or Update
\* whose form holds zero key results gets past validation: none is ever in
\* flight towards the table.
C2_KeyResultsNonEmpty ==
    /\ \A r \in okrs : Len(r.key_results) >= 1
    /\ \A c \in Tabs :
          pc[c] \in CreatePcs \cup {"update"} => Len(form[c].keyResults) >= 1

\* an updated row is stored and a save with zero key results has just been
\* refused, naming keyResults
C2_Witness ==
    \E c \in Tabs :
        /\ page[c] = "detail" /\ pc[c] = "idle" /\ isEditing[c]
        /\ Len(form[c].keyResults) = 0
        /\ "keyResults" \in errors[c]
        /\ \E r \in okrs : r.status = "completed" /\ Len(r.key_results) = 1

\* C3: the step in which the table runs an Update that matches no row of
\* the caller (the id is gone or belongs to someone else) changes no row and
\* ends in an error report, not in a success.
C3_UpdateOfMissingRowIsAnError ==
    [][\A c \in Tabs :
          (pc[c] = "update" /\ pc'[c] # "update"
             /\ Target(id[c], user[c]) = {}) =>
              /\ okrs' = okrs
              /\ toast'[c].title = "Error"
              /\ toast'[c] # ToastUpdated]_vars

\* C4: the step in which the table runs a Delete that matches no row of the
\* caller removes no row and ends in an error report, not in a success.
C4_DeleteOfMissingRowIsAnError ==
    [][\A c \in Tabs :
          (pc[c] = "delete" /\ pc'[c] # "delete"
             /\ Target(id[c], user[c]) = {}) =>
              /\ okrs' = okrs
              /\ toast'[c].title = "Error"
              /\ toast'[c] # ToastDeleted]_vars

\* C5: a fetch of an OKR that exists and belongs to another user than the
\* one the fetch runs as ends with an error toast and Home mounted, the
\* `okr` state empty; a fetch never puts a row into `okr` that is not the
\* caller's, and the listing a fetch stores holds only the caller's rows.
C5_NoForeignRecordInView ==
    [][\A c \in Tabs :
          /\ (pc[c] = "fetchOKR" /\ pc'[c] # "fetchOKR"
                /\ \E r \in okrs : r.id = id[c] /\ r.user_id # user[c]) =>
                 /\ page'[c] = "home"
                 /\ okr'[c] = << >>
                 /\ toast'[c] \in {ToastFetchOKR, ToastUnexpected}
          /\ (pc[c] = "fetchOKR" /\ pc'[c] # "fetchOKR"
                /\ okr'[c] # << >>) =>
                 okr'[c][1].user_id = user[c]
          /\ (pc[c] = "fetchOKRs" /\ pc'[c] # "fetchOKRs") =>
                 \A i \in 1..Len(okrsList'[c]) :
                     okrsList'[c][i].user_id = user[c]]_vars

\* a signed-in user was sent back to Home by a failed fetch and sees an
\* empty listing while the table holds a row of another user
C5_Witness ==
    \E c \in Tabs :
        /\ page[c] = "home" /\ pc[c] = "idle"
        /\ session \in Users
        /\ toast[c] = ToastFetchOKR
        /\ okrsList[c] = << >>
        /\ \E r \in okrs : r.user_id \in Users \ {session}

\* C6: the step in which an Update ends sends exactly one notification,
\* with action "updated" and the saved title, when the table accepted the
\* update, and none when it did not.
C6_UpdateNotifiesOnce ==
    [][\A c \in Tabs :
          (pc[c] = "update" /\ pc'[c] # "update") =>
              IF pc'[c] = "fetchOKR"
              THEN /\ Len(invocations') = Len(invocations) + 1
                   /\ invocations'[Len(invocations')].action = "updated"
                   /\ invocations'[Len(invocations')].okrTitle = form[c].title
              ELSE invocations' = invocations]_vars

\* C7: the step in which the table accepts a Create's insert sends one
\* notification carrying the owner's email, the row's title and "created";
\* nothing else ever sends one, so there are always exactly as many
\* notifications as rows were inserted.
C7_CreateNotifiesOnce ==
    [][/\ \A c \in Tabs :
             (pc[c] = "insert" /\ pc'[c] = "notify") =>
                 \E r \in okrs' \ okrs :
                     invocations' =
                         Append(invocations,
                                [userEmail |-> Email(r.user_id),
                                 okrTitle |-> r.title,
                                 action |-> "created"])
       /\ invocations' # invocations =>
             \E c \in Tabs :
                 /\ pc[c] = "insert" /\ pc'[c] = "notify"
                 /\ Cardinality(okrs') = Cardinality(okrs) + 1
       /\ Len(invocations') = nextId' - 1]_vars

\* a Create's insert was accepted and its notification is under way
C7_Witness ==
    \E c \in Tabs :
        /\ pc[c] = "notify"
        /\ Len(invocations) = 1
        /\ invocations[1].okrTitle = form[c].title
        /\ \E r \in okrs : r.title = form[c].title

\* C8: whatever answer the notification of an inserted Create gets, the step
\* in which onSubmit ends leaves the table alone, shows the success toast
\* and goes to the listing.
C8_NotifierCannotFailCreate ==
    [][\A c \in Tabs :
          (pc[c] = "notify" /\ pc'[c] # "notify") =>
              /\ okrs' = okrs
              /\ toast'[c] = ToastCreated
              /\ page'[c] = "home"]_vars

\* C9: while the notification of an inserted Create is still unanswered, the
\* success toast is already shown and the listing already opened.
C9_SuccessDoesNotWaitForNotifier ==
    \A c \in Tabs :
        pc[c] = "notify" => toast[c] = ToastCreated /\ page[c] = "home"

\* C10: a Create whose draft breaks one of the validation rules (title and
\* objective non-empty, quarter one of Q1..Q4, year in 2020..2030, at least
\* one key result, each with a description and a target) never gets as far
\* as getUser, the insert or the notification.
C10_InvalidDraftHasNoEffect ==
    \A c \in Tabs :
        pc[c] \in CreatePcs =>
            /\ form[c].title # "" /\ form[c].objective # ""
            /\ form[c].quarter \in {"Q1", "Q2", "Q3", "Q4"}
            /\ form[c].year >= 2020 /\ form[c].year <= 2030
            /\ Len(form[c].keyResults) >= 1
            /\ \A i \in 1..Len(form[c].keyResults) :
                  /\ form[c].keyResults[i].description # ""
                  /\ form[c].keyResults[i].target # ""

\* C11: no row of the table has a quarter other than Q1, Q2, Q3 or Q4, and
\* no Create or Update gets past validation with such a quarter.
C11_QuarterOneOfFour ==
    /\ \A r \in okrs : r.quarter \in {"Q1", "Q2", "Q3", "Q4"}
    /\ \A c \in Tabs :
          pc[c] \in CreatePcs \cup {"update"} =>
              form[c].quarter \in {"Q1", "Q2", "Q3", "Q4"}

\* C12: every row of the table has progress in 0..100 and year in
\* 2020..2030, whether it was written through the forms or by a request sent
\* to the table directly.
C12_StoredWithinBounds ==
    \A r \in okrs :
        /\ r.progress >= 0 /\ r.progress <= 100
        /\ r.year >= 2020 /\ r.year <= 2030

\* a step in which the FileReader of tab c delivers the dropped file to
\* reader.onload, and the file it delivers
Extracts(c) == reader[c] = "LOADING" /\ reader'[c] = "DONE"
Dropped(c) == uploadedFile[c][1]

\* C13: whatever the draft holds, an extraction from a readable sheet of no
\* row or of one row leaves the six draft fields as they were and shows no
\* toast, so no error.
C13_ShortSheetLeavesDraft ==
    [][\A c \in Tabs :
          (/\ Extracts(c)
           /\ Dropped(c).readable
           /\ Len(Dropped(c).jsonData) \in {0, 1}) =>
              /\ form'[c].title = form[c].title
              /\ form'[c].description = form[c].description
              /\ form'[c].objective = form[c].objective
              /\ form'[c].quarter = form[c].quarter
              /\ form'[c].year = form[c].year
              /\ form'[c].keyResults = form[c].keyResults
              /\ toast'[c] = toast[c]]_vars

\* a header-only sheet has been extracted into a draft the user had filled
\* in, and nothing was reported
C13_Witness ==
    \E c \in Tabs :
        /\ reader[c] = "DONE"
        /\ uploadedFile[c] = << Workbook(<< headerRow >>) >>
        /\ form[c] = BaseDraft
        /\ toast[c] = NoToast

\* the data row of an extraction step of tab c from a readable sheet that
\* has one
HasDataRow(c) ==
    Extracts(c) /\ Dropped(c).readable /\ Len(Dropped(c).jsonData) > 1
DataRow(c) == Dropped(c).jsonData[2]

\* C14: an extraction gives each of title, description, objective, quarter
\* and year the value of its cell (columns 0..4) when that cell is present,
\* that is holds a non-empty text or a non-zero number, and leaves the field
\* as it was when the cell is not; a data row whose only present cell is
\* column 2 changes the objective and nothing else of the draft.
C14_FieldSetIffCellPresent ==
    [][\A c \in Tabs :
          HasDataRow(c) =>
              LET cell(k) == At(DataRow(c), k)
              IN  /\ form'[c].title =
                         IF Truthy(cell(0)) THEN String(cell(0))
                         ELSE form[c].title
                  /\ form'[c].description =
                         IF Truthy(cell(1)) THEN String(cell(1))
                         ELSE form[c].description
                  /\ form'[c].objective =
                         IF Truthy(cell(2)) THEN String(cell(2))
                         ELSE form[c].objective
                  /\ form'[c].quarter =
                         IF Truthy(cell(3)) THEN String(cell(3))
                         ELSE form[c].quarter
                  /\ form'[c].year =
                         IF Truthy(cell(4)) THEN Number(cell(4))
                         ELSE form[c].year
                  /\ (\A k \in 0..Len(DataRow(c)) : Truthy(cell(k)) <=> k = 2)
                         => form'[c] =
                                [form[c] EXCEPT !.objective = String(cell(2))]
     ]_vars

\* the row whose only cell is an objective has been extracted into a filled
\* draft: the objective is the cell's, the rest is the draft's
C14_Witness ==
    \E c \in Tabs :
        /\ reader[c] = "DONE"
        /\ uploadedFile[c] =
               << Workbook(<< headerRow,
                              << Undefined, Undefined, Text("Retention") >> >>) >>
        /\ form[c] = [BaseDraft EXCEPT !.objective = "Retention"]
        /\ toast[c] = Toast("Success", "Excel file parsed successfully!")

\* the pairs (5,6), (7,8), ... of a data row, numbered 0, 1, ..., whose two
\* cells are both present
CompletePairs(dataRow) ==
    { k \in 0..Len(dataRow) :
          Truthy(At(dataRow, 5 + 2 * k)) /\ Truthy(At(dataRow, 6 + 2 * k)) }

\* C15: when the data row holds at least one complete pair, the draft's
\* key results after the extraction are exactly those pairs in column order,
\* description from the first cell, target from the second, current "0":
\* as many as there are complete pairs, whatever list the draft held before.
C15_KeyResultsReplaced ==
    [][\A c \in Tabs :
          (HasDataRow(c) /\ CompletePairs(DataRow(c)) # {}) =>
              LET P == CompletePairs(DataRow(c))
                  rank(k) == Cardinality({ j \in P : j <= k })
              IN  /\ Len(form'[c].keyResults) = Cardinality(P)
                  /\ \A k \in P :
                        form'[c].keyResults[rank(k)] =
                            [description |-> String(At(DataRow(c), 5 + 2 * k)),
                             target |-> String(At(DataRow(c), 6 + 2 * k)),
                             current |-> "0"]]_vars

\* the row with the pairs ("Ship v1", 100) and ("Improve latency", "50ms")
\* has been extracted: the draft holds these two key results and no other
C15_Witness ==
    \E c \in Tabs :
        /\ reader[c] = "DONE"
        /\ Len(uploadedFile[c][1].jsonData) = 2
        /\ CompletePairs(uploadedFile[c][1].jsonData[2]) = {0, 1}
        /\ form[c].keyResults =
               << [description |-> "Ship v1", target |-> "100",
                   current |-> "0"],
                  [description |-> "Improve latency", target |-> "50ms",
                   current |-> "0"] >>

\* C16: every key result an extraction puts into the draft comes from a pair
\* whose description cell and target cell are both present; a data row with
\* columns 5 and 6 present, column 7 present and column 8 empty yields
\* exactly one key result, the one of columns 5 and 6.
C16_PairNeedsBothCells ==
    [][\A c \in Tabs :
          HasDataRow(c) =>
              LET cell(k) == At(DataRow(c), k)
              IN  /\ form'[c].keyResults # form[c].keyResults =>
                         \A j \in 1..Len(form'[c].keyResults) :
                             \E k \in CompletePairs(DataRow(c)) :
                                 /\ form'[c].keyResults[j].description =
                                        String(cell(5 + 2 * k))
                                 /\ form'[c].keyResults[j].target =
                                        String(cell(6 + 2 * k))
                  /\ (/\ Truthy(cell(5)) /\ Truthy(cell(6))
                      /\ Truthy(cell(7)) /\ ~Truthy(cell(8))
                      /\ Len(DataRow(c)) <= 9) =>
                         form'[c].keyResults =
                             << [description |-> String(cell(5)),
                                 target |-> String(cell(6)),
                                 current |-> "0"] >>]_vars

\* a row with "Ship v1", "100" in columns 5 and 6 and "Improve latency" in
\* column 7 alone has been extracted: one key result
C16_Witness ==
    \E c \in Tabs :
        /\ reader[c] = "DONE"
        /\ Len(uploadedFile[c][1].jsonData) = 2
        /\ LET dataRow == uploadedFile[c][1].jsonData[2]
           IN  /\ Len(dataRow) = 8
               /\ dataRow[8] = Text("Improve latency")
               /\ Truthy(dataRow[6]) /\ Truthy(dataRow[7])
        /\ form[c].keyResults =
               << [description |-> "Ship v1", target |-> "100",
                   current |-> "0"] >>

\* the pairs of a data row before its first pair with a missing half
LeadingPairs(dataRow) ==
    { k \in CompletePairs(dataRow) : \A j \in 0..k : j \in CompletePairs(dataRow) }

\* C17: the key results an extraction puts into the draft are the complete
\* pairs before the first pair with a missing half, no pair at a later
\* column contributing (with no such leading pair the list is left alone),
\* and the fields of columns 0..4 are set as for any other row.
C17_ScanStopsAtIncompletePair ==
    [][\A c \in Tabs :
          HasDataRow(c) =>
              LET L == LeadingPairs(DataRow(c))
              IN  /\ form'[c].keyResults =
                         IF L = {} THEN form[c].keyResults
                         ELSE [j \in 1..Cardinality(L) |->
                                 [description |->
                                      String(At(DataRow(c), 3 + 2 * j)),
                                  target |->
                                      String(At(DataRow(c), 4 + 2 * j)),
                                  current |-> "0"]]
                  /\ [form'[c] EXCEPT !.keyResults = form[c].keyResults] =
                         setFields(form[c], DataRow(c))]_vars

\* C17, amended: a pair with a missing half contributes nothing and does not
\* end the scan: every complete pair at a later column still contributes,
\* after the pairs accepted before it, and the fields of columns 0..4 are
\* set as for any other row.
C17_IncompletePairIsSkipped ==
    [][\A c \in Tabs :
          (HasDataRow(c) /\ CompletePairs(DataRow(c)) # {}) =>
              LET P == CompletePairs(DataRow(c))
                  L == LeadingPairs(DataRow(c))
                  list == form'[c].keyResults
              IN  /\ Len(list) = Cardinality(P)
                  /\ \A k \in L :
                        list[k + 1].description =
                            String(At(DataRow(c), 5 + 2 * k))
                  /\ \A k \in P \ L :
                        \E j \in (Cardinality(L) + 1)..Len(list) :
                            /\ list[j].description =
                                   String(At(DataRow(c), 5 + 2 * k))
                            /\ list[j].target =
                                   String(At(DataRow(c), 6 + 2 * k))
                  /\ [form'[c] EXCEPT !.keyResults = form[c].keyResults] =
                         setFields(form[c], DataRow(c))]_vars

\* a row with a complete pair, then a pair without target, then a complete
\* pair has been extracted: both complete pairs are in the draft, and the
\* quarter of column 3 with them
C17_Witness ==
    \E c \in Tabs :
        /\ reader[c] = "DONE"
        /\ Len(uploadedFile[c][1].jsonData) = 2
        /\ CompletePairs(uploadedFile[c][1].jsonData[2]) = {0, 2}
        /\ form[c].quarter = "Q3"
        /\ form[c].keyResults =
               << [description |-> "Ship v1", target |-> "100",
                   current |-> "0"],
                  [description |-> "Hire", target |-> "3", current |-> "0"] >>

\* C18: when the data row holds no complete pair, the draft's key results
\* after the extraction are the list it held before, element for element,
\* also when cells of columns 0..4 changed other fields.
C18_NoPairKeepsKeyResults ==
    [][\A c \in Tabs :
          (HasDataRow(c) /\ CompletePairs(DataRow(c)) = {}) =>
              /\ Len(form'[c].keyResults) = Len(form[c].keyResults)
              /\ \A j \in 1..Len(form[c].keyResults) :
                    form'[c].keyResults[j] = form[c].keyResults[j]]_vars

\* a row with title, objective, quarter and year but no pair has been
\* extracted into a draft of two key results: the fields are the row's, the
\* two key results are still there
C18_Witness ==
    \E c \in Tabs :
        /\ reader[c] = "DONE"
        /\ Len(uploadedFile[c][1].jsonData) = 2
        /\ CompletePairs(uploadedFile[c][1].jsonData[2]) = {}
        /\ form[c].title = "Cut churn" /\ form[c].quarter = "Q5"
        /\ form[c].year = 2027
        /\ form[c].keyResults =
               << KR("Increase MRR", "10000"), KR("Sign partners", "5") >>

\* C19: an extraction from bytes that are no workbook shows the one toast
\* "Failed to parse Excel file" and leaves every draft field as it was.
C19_UnreadableFileLeavesDraft ==
    [][\A c \in Tabs :
          (Extracts(c) /\ ~Dropped(c).readable) =>
              /\ toast'[c].title = "Error"
              /\ toast'[c].description =
                     "Failed to parse Excel file. Please check the format."
              /\ \A c2 \in Tabs \ {c} : toast'[c2] = toast[c2]
              /\ form'[c].title = form[c].title
              /\ form'[c].description = form[c].description
              /\ form'[c].objective = form[c].objective
              /\ form'[c].quarter = form[c].quarter
              /\ form'[c].year = form[c].year
              /\ form'[c].keyResults = form[c].keyResults]_vars

\* an unreadable file has been dropped on a filled draft and read: the error
\* toast is up and the draft is intact
C19_Witness ==
    \E c \in Tabs :
        /\ reader[c] = "DONE"
        /\ uploadedFile[c] = << Corrupt >>
        /\ toast[c].title = "Error"
        /\ form[c] = [BaseDraft EXCEPT !.keyResults =
                                           << KR("Increase MRR", "10000"),
                                              KR("Sign partners", "5") >>]

\* C20: an extraction whose column 4 holds a text that is no numeral leaves
\* NaN as the draft's year, and while the draft's year is NaN no Create gets
\* past validation: handleSubmit reports the year, onSubmit does not start,
\* the table and the notification function are not called.
C20_NonNumericYearIsRejected ==
    [][\A c \in Tabs :
          /\ (/\ HasDataRow(c)
              /\ At(DataRow(c), 4).kind = "string"
              /\ At(DataRow(c), 4).str # ""
              /\ \A n \in Numerals : ToString(n) # At(DataRow(c), 4).str) =>
                 form'[c].year = NaN
          /\ (page[c] = "new" /\ form[c].year = NaN /\ pc[c] = "idle") =>
                 /\ pc'[c] \notin CreatePcs
                 /\ (page'[c] = "new" /\ errors'[c] # errors[c]) =>
                        "year" \in errors'[c]
                 /\ okrs' = okrs
                 /\ invocations' = invocations]_vars

\* a row whose year cell reads "next year" has been extracted into an
\* otherwise valid draft and the draft submitted: the year is the one field
\* reported, and nothing was stored or notified
C20_Witness ==
    \E c \in Tabs :
        /\ reader[c] = "DONE"
        /\ Len(uploadedFile[c][1].jsonData) = 2
        /\ At(uploadedFile[c][1].jsonData[2], 4) = Text("next year")
        /\ form[c] = [BaseDraft EXCEPT !.year = NaN]
        /\ errors[c] = {"year"}
        /\ pc[c] = "idle"
        /\ okrs = {} /\ invocations = << >>

\* C21: no step of a Delete, from the click on the button to the toast that
\* ends handleDelete, whether the table removed a row, removed none or
\* answered with an error, adds a request to send-okr-notification.
C21_DeleteNeverNotifies ==
    [][\A c \in Tabs :
          (pc[c] = "delete" \/ pc'[c] = "delete") =>
              invocations' = invocations]_vars

\* a row was created, which notified once, and then deleted: the table is
\* empty again and the one request received is that of the Create
C21_Witness ==
    \E c \in Tabs :
        /\ toast[c] = ToastDeleted
        /\ okrs = {} /\ nextId = 2
        /\ Len(invocations) = 1
        /\ invocations[1].action = "created"

\* C22: the step in which the insert of a Create comes back without a row
\* stored (the table answered with an error, or the call rejected) shows an
\* error toast and ends onSubmit: the table is as before, the insert is not
\* sent again, send-okr-notification is not invoked, no success toast is
\* shown and the page stays on the form.
C22_RejectedInsertIsSurfaced ==
    [][\A c \in Tabs :
          (pc[c] = "insert" /\ okrs' = okrs) =>
              /\ nextId' = nextId
              /\ invocations' = invocations
              /\ pc'[c] = "idle"
              /\ toast'[c].title = "Error"
              /\ toast'[c] # ToastCreated
              /\ page'[c] = "new"
              /\ form'[c] = form[c]]_vars

\* a signed-in user's valid draft was refused by the table: the error
\* message is shown, the form is still there, nothing is stored or notified
C22_Witness ==
    \E c \in Tabs :
        /\ session \in Users
        /\ page[c] = "new" /\ pc[c] = "idle"
        /\ okrSchemaNew(form[c]) = {}
        /\ toast[c] = ToastStoreError
        /\ okrs = {} /\ nextId = 1 /\ invocations = << >>

\* C23: a form that passes validation passes it with every one of the three
\* statuses and every progress of 0..100 in its place, and the step in
\* which the table accepts an Update stores the form's status and the
\* form's progress as they are: a form
\* whose progress is the row's leaves the progress, a form whose status is
\* the row's leaves the status, whatever the other of the two becomes.
C23_StatusAndProgressUncoupled ==
    [][\A c \in Tabs :
          /\ (pc[c] = "idle" /\ pc'[c] = "update") =>
                \A s \in Statuses, p \in {0, 50, 100} :
                    okrSchemaDetail([form[c] EXCEPT !.status = s,
                                                    !.progress = p]) = {}
          /\ (pc[c] = "update" /\ pc'[c] = "fetchOKR") =>
                \A r \in Target(id[c], user[c]) :
                    \E w \in okrs' :
                        /\ w.id = r.id
                        /\ w.status = form[c].status
                        /\ w.progress = form[c].progress
                        /\ form[c].progress = r.progress =>
                               w.progress = r.progress
                        /\ form[c].status = r.status =>
                               w.status = r.status]_vars

\* an Update has moved a row to "completed" and left its progress at 0
C23_Witness ==
    \E c \in Tabs :
        /\ toast[c] = ToastUpdated
        /\ \E r \in okrs : r.status = "completed" /\ r.progress = 0

\* C24: when the table answers an Update of a row its owner can see, also
\* one sent while another Update of the same row was in flight or after
\* the row had changed under the page, the Update is accepted and the row
\* holds, in every field a form writes, the values of this Update's form,
\* none of the other's; id and owner are the row's.
C24_LastWriteWins ==
    [][\A c \in Tabs :
          (/\ pc[c] = "update" /\ pc'[c] # "update"
           /\ Target(id[c], user[c]) # {}) =>
              /\ toast'[c] = ToastUpdated
              /\ pc'[c] = "fetchOKR"
              /\ \A r \in Target(id[c], user[c]) :
                    \E w \in okrs' :
                        /\ w.id = r.id /\ w.user_id = r.user_id
                        /\ w.title = form[c].title
                        /\ w.description = form[c].description
                        /\ w.objective = form[c].objective
                        /\ w.quarter = form[c].quarter
                        /\ w.year = form[c].year
                        /\ w.status = form[c].status
                        /\ w.progress = form[c].progress
                        /\ w.key_results = form[c].keyResults
                        /\ \A q \in okrs' : q.id = r.id => q = w]_vars

\* both tabs have had their different Updates of the same row accepted and
\* neither has re-fetched yet: the row is the form of one of them, whole
C24_Witness ==
    /\ pc["t1"] = "fetchOKR" /\ pc["t2"] = "fetchOKR"
    /\ toast["t1"] = ToastUpdated /\ toast["t2"] = ToastUpdated
    /\ id["t1"] = id["t2"]
    /\ form["t1"] # form["t2"]
    /\ okr["t1"] # << >> /\ okr["t2"] # << >>
    /\ \E r \in okrs :
          /\ r.id = id["t2"]
          /\ FormOf(r) = form["t2"]
          /\ FormOf(r) # form["t1"]

\* C25: when getUser answers a Create and nobody is signed in, onSubmit ends
\* in that step: the error toast is shown, isLoading is false again, and
\* neither the table nor send-okr-notification is called; no Create is ever
\* at its insert or its notification without a user.
C25_NoUserNoCreate ==
    [][\A c \in Tabs :
          /\ (pc[c] = "getUser" /\ session = NoUser /\ pc'[c] # "getUser") =>
                /\ pc'[c] = "idle"
                /\ toast'[c] = ToastUnexpected
                /\ ~isLoading'[c]
                /\ okrs' = okrs /\ nextId' = nextId
                /\ invocations' = invocations
          /\ pc'[c] \in {"insert", "notify"} => user'[c] \in Users]_vars

\* a valid draft was submitted with nobody signed in: the error is shown,
\* the form is usable again, nothing was stored or notified
C25_Witness ==
    \E c \in Tabs :
        /\ session = NoUser
        /\ page[c] = "new" /\ pc[c] = "idle"
        /\ okrSchemaNew(form[c]) = {}
        /\ toast[c] = ToastUnexpected
        /\ ~isLoading[c]
        /\ okrs = {} /\ nextId = 1 /\ invocations = << >>

\* a cell that is absent, or holds the number 0 or the empty text
Blank(v) == v = Undefined \/ v = Num(0) \/ v = Text("")

\* C26: a cell holding the number 0 or the empty text counts as absent: in
\* columns 0..4 it leaves its field as it was, and a pair with such a cell
\* as description or target adds no key result, so that the key results
\* set by an extraction are as many as the pairs with neither cell absent,
\* 0 or empty, and are left alone when there is no such pair.
C26_ZeroAndEmptyAreAbsent ==
    [][\A c \in Tabs :
          HasDataRow(c) =>
              LET cell(k) == At(DataRow(c), k)
                  Full == { k \in 0..Len(DataRow(c)) :
                               ~Blank(cell(5 + 2 * k))
                               /\ ~Blank(cell(6 + 2 * k)) }
              IN  /\ Blank(cell(0)) => form'[c].title = form[c].title
                  /\ Blank(cell(1)) =>
                         form'[c].description = form[c].description
                  /\ Blank(cell(2)) => form'[c].objective = form[c].objective
                  /\ Blank(cell(3)) => form'[c].quarter = form[c].quarter
                  /\ Blank(cell(4)) => form'[c].year = form[c].year
                  /\ IF Full = {}
                     THEN form'[c].keyResults = form[c].keyResults
                     ELSE /\ Len(form'[c].keyResults) = Cardinality(Full)
                          /\ \A j \in 1..Len(form'[c].keyResults) :
                                \E k \in Full :
                                    /\ form'[c].keyResults[j].description =
                                           String(cell(5 + 2 * k))
                                    /\ form'[c].keyResults[j].target =
                                           String(cell(6 + 2 * k))]_vars

\* a row with 0 as title and as year, "" as description and a pair whose
\* target is 0 has been extracted into a filled draft: the draft is as it
\* was, and the success toast is shown
C26_Witness ==
    \E c \in Tabs :
        /\ reader[c] = "DONE"
        /\ Len(uploadedFile[c][1].jsonData) = 2
        /\ LET dataRow == uploadedFile[c][1].jsonData[2]
           IN  /\ At(dataRow, 0) = Num(0) /\ At(dataRow, 1) = Text("")
               /\ At(dataRow, 4) = Num(0) /\ At(dataRow, 6) = Num(0)
        /\ form[c] = BaseDraft
        /\ toast[c] = Toast("Success", "Excel file parsed successfully!")

\* C27: isSaving is true while an Update is with the table, and the step in
\* which the table's answer ends onSubmit sets it to false; after an
\* accepted Update that step has left edit mode and started fetchOKR, after
\* a rejected one the page is still in edit mode with the form as it was
\* submitted and the table as it was.
C27_AfterUpdate ==
    [][\A c \in Tabs :
          /\ pc'[c] = "update" => isSaving'[c] /\ isEditing'[c]
          /\ (pc[c] = "update" /\ pc'[c] # "update") =>
                /\ ~isSaving'[c]
                /\ page'[c] = "detail"
                /\ form'[c] = form[c]
                /\ \/ /\ toast'[c] = ToastUpdated
                      /\ ~isEditing'[c]
                      /\ pc'[c] = "fetchOKR"
                   \/ /\ toast'[c].title = "Error"
                      /\ isEditing'[c]
                      /\ pc'[c] = "idle"
                      /\ okrs' = okrs]_vars

\* an Update was accepted: the page shows the record again, no longer
\* saving, with its re-fetch under way and the row holding the form's values
C27_Witness ==
    \E c \in Tabs :
        /\ page[c] = "detail" /\ pc[c] = "fetchOKR"
        /\ toast[c] = ToastUpdated
        /\ ~isEditing[c] /\ ~isSaving[c]
        /\ okr[c] # << >>
        /\ form[c] # FormOf(okr[c][1])
        /\ \E r \in okrs : r.id = id[c] /\ FormOf(r) = form[c]

====
